---- MODULE Spec2Model ----
(***************************************************************************)
(* Model of reports/emailer/send_followup_emails_smart.py: the interactive *)
(* follow-up email sender.  Text is modelled as sequences of one-character *)
(* strings, so that strip(), lower(), title(), join() and split() are      *)
(* computed character by character.                                        *)
(***************************************************************************)
EXTENDS Naturals, Sequences, FiniteSets

VARIABLES
    pc,             \* position of the run inside main() and its callees
    stdin,          \* lines already pasted into the terminal, not yet read
    line,           \* the line returned by the most recent input()
    diag,           \* the diagnostic printed by the most recent step
    session_date,   \* get_session_info: session_date
    session_num,    \* get_session_info: session_num
    report_id,      \* get_session_info: report_id
    lines,          \* get_booking_data: lines
    recipients,     \* main: recipients
    i,              \* loop index of the dry-run and the real-send loops
    success_count,  \* main: success_count
    trace           \* the effects of the run, in order of occurrence

vars == <<pc, stdin, line, diag, session_date, session_num, report_id,
          lines, recipients, i, success_count, trace>>

----------------------------------------------------------------------------
(* Bounds of the model *)

MaxDateLen == 5
MaxNumLen == 2
MaxLines == 6
MaxPaste == 4

----------------------------------------------------------------------------
(* Program constants *)

DELAY_BETWEEN_EMAILS == 1
SAVE_CSV == TRUE

----------------------------------------------------------------------------
(* Characters and strings *)

LowerLetters ==
    <<"a","b","c","d","e","f","g","h","i","j","k","l","m",
      "n","o","p","q","r","s","t","u","v","w","x","y","z">>
UpperLetters ==
    <<"A","B","C","D","E","F","G","H","I","J","K","L","M",
      "N","O","P","Q","R","S","T","U","V","W","X","Y","Z">>

IsLowerChar(c) == \E k \in 1..26 : LowerLetters[k] = c
IsUpperChar(c) == \E k \in 1..26 : UpperLetters[k] = c
IsCased(c) == IsLowerChar(c) \/ IsUpperChar(c)

LowerChar(c) ==
    IF IsUpperChar(c)
    THEN LowerLetters[CHOOSE k \in 1..26 : UpperLetters[k] = c]
    ELSE c
UpperChar(c) ==
    IF IsLowerChar(c)
    THEN UpperLetters[CHOOSE k \in 1..26 : LowerLetters[k] = c]
    ELSE c

\* str.isspace(): the characters str.strip() removes
IsSpace(c) == c \in {" ", "\t", "\n"}

\* The characters the pattern \d matches on a str: every Unicode decimal
\* digit, of which "u0663" (ARABIC-INDIC DIGIT THREE) stands for the
\* non-ASCII ones; int() gives each its decimal value.
AsciiDigits == <<"0","1","2","3","4","5","6","7","8","9">>
IsDigit(c) == (\E k \in 1..10 : AsciiDigits[k] = c) \/ c = "u0663"
DigitVal(c) ==
    IF c = "u0663" THEN 3
    ELSE (CHOOSE k \in 1..10 : AsciiDigits[k] = c) - 1

RECURSIVE LStrip(_)
LStrip(s) ==
    IF s # <<>> /\ IsSpace(Head(s)) THEN LStrip(Tail(s)) ELSE s

RECURSIVE RStrip(_)
RStrip(s) ==
    IF s # <<>> /\ IsSpace(s[Len(s)])
    THEN RStrip(SubSeq(s, 1, Len(s) - 1))
    ELSE s

\* str.strip()
Strip(s) == RStrip(LStrip(s))

\* str.lower()
Lower(s) == [k \in 1..Len(s) |-> LowerChar(s[k])]

\* str.title(): a cased character is upper-cased when it follows an uncased
\* one (or starts the string) and lower-cased otherwise
Title(s) ==
    [k \in 1..Len(s) |->
        IF k = 1 \/ ~IsCased(s[k - 1]) THEN UpperChar(s[k]) ELSE LowerChar(s[k])]

\* int() of a string of decimal digits
RECURSIVE IntOf(_)
IntOf(s) ==
    IF s = <<>> THEN 0
    ELSE 10 * IntOf(SubSeq(s, 1, Len(s) - 1)) + DigitVal(s[Len(s)])

\* '\n'.join(ls)
RECURSIVE Join(_)
Join(ls) ==
    IF ls = <<>> THEN <<>>
    ELSE IF Len(ls) = 1 THEN ls[1]
    ELSE ls[1] \o <<"\n">> \o Join(Tail(ls))

\* s.split('\n')
RECURSIVE SplitNL(_)
SplitNL(s) ==
    IF \A k \in 1..Len(s) : s[k] # "\n" THEN <<s>>
    ELSE LET p == CHOOSE k \in 1..Len(s) :
                      s[k] = "\n" /\ \A j \in 1..(k - 1) : s[j] # "\n"
         IN <<SubSeq(s, 1, p - 1)>> \o SplitNL(SubSeq(s, p + 1, Len(s)))

\* All sequences over S of length at most n
RECURSIVE SeqsUpTo(_, _)
SeqsUpTo(S, n) ==
    IF n = 0 THEN {<<>>}
    ELSE LET shorter == SeqsUpTo(S, n - 1)
         IN shorter \cup {Append(s, c) : s \in {t \in shorter : Len(t) = n - 1}, c \in S}

----------------------------------------------------------------------------
(* Console input *)

\* input(): the next pasted line if one is waiting, else a line the user
\* types now (one of `typed`)
Offered(typed) == IF stdin = <<>> THEN typed ELSE {Head(stdin)}
Rest == IF stdin = <<>> THEN <<>> ELSE Tail(stdin)

yes == <<"y","e","s">>

\* Lines a user types at the prompts of a whole run of main()
TypedDates ==
    { <<"1","2","0","4">>, <<" ","0","1","3","1"," ">>, <<"1","2","4">>,
      <<"1","2","x","4">>, <<"1","3","0","1">>, <<"0","0","1","0">>,
      <<"1","2","0","0">>, <<"0","2","3","2">> }
TypedNums ==
    { <<>>, <<"1">>, <<" ","2">>, <<"3">>, <<"4">>, <<"1","2">> }
TypedAnswers ==
    { yes, <<" ","Y","E","S"," ">>, <<"y">>, <<"n","o">>, <<>>,
      <<"y","e","s","!">> }

\* Lines offered when get_session_info is exercised on its own: every
\* string over a small alphabet, up to a length
DateChars == {"0", "1", "2", "3", "u0663", " ", "x"}
NumChars == {"1", "2", "3", "4", " "}
AllDateInputs == SeqsUpTo(DateChars, MaxDateLen)
AllNumInputs == SeqsUpTo(NumChars, MaxNumLen)

----------------------------------------------------------------------------
(* get_session_info *)

\* re.match(r'^\d{4}$', s) on a stripped line
MatchesMMDD(s) == Len(s) = 4 /\ \A k \in 1..4 : IsDigit(s[k])

\* DateVerdict without the upper limit on the day
DateVerdictNoDayLimit(s) ==
    IF ~MatchesMMDD(s) THEN "bad_format"
    ELSE IF IntOf(SubSeq(s, 1, 2)) < 1 \/ IntOf(SubSeq(s, 1, 2)) > 12
         THEN "bad_month"
    ELSE IF IntOf(SubSeq(s, 3, 4)) < 1 THEN "bad_day"
    ELSE "ok"

\* The verdict of one pass of the date loop on the stripped input
DateVerdict(s) ==
    IF ~MatchesMMDD(s) THEN "bad_format"
    ELSE IF IntOf(SubSeq(s, 1, 2)) < 1 \/ IntOf(SubSeq(s, 1, 2)) > 12
         THEN "bad_month"
    ELSE IF IntOf(SubSeq(s, 3, 4)) < 1 \/ IntOf(SubSeq(s, 3, 4)) > 31
         THEN "bad_day"
    ELSE "ok"

\* input(...).strip() or "1"
SessionNumOf(l) == IF Strip(l) = <<>> THEN <<"1">> ELSE Strip(l)

ValidSessionNum(n) == n \in {<<"1">>, <<"2">>, <<"3">>}

\* ReportId appending the session number also for the first session
ReportIdAlwaysSuffixed(date, num) == date \o num

ReportId(date, num) == IF num = <<"1">> THEN date ELSE date \o num

\* One pass of the session-date loop
PromptSessionDate(typed) ==
    /\ pc = "date"
    /\ \E l \in Offered(typed) :
        LET s == Strip(l) IN
        /\ line' = l
        /\ stdin' = Rest
        /\ IF DateVerdict(s) = "ok"
           THEN /\ session_date' = s
                /\ diag' = "none"
                /\ pc' = "num"
           ELSE /\ diag' = DateVerdict(s)
                /\ UNCHANGED <<session_date, pc>>
    /\ UNCHANGED <<session_num, report_id, lines, recipients, i,
                   success_count, trace>>

\* One pass of the session-number loop; on a valid number the report ID is
\* computed and get_session_info returns
PromptSessionNum(typed) ==
    /\ pc = "num"
    /\ \E l \in Offered(typed) :
        LET n == SessionNumOf(l) IN
        /\ line' = l
        /\ stdin' = Rest
        /\ IF ValidSessionNum(n)
           THEN /\ session_num' = n
                /\ report_id' = ReportId(session_date, n)
                /\ diag' = "none"
                /\ pc' = "paste"
           ELSE /\ diag' = "bad_num"
                /\ UNCHANGED <<session_num, report_id, pc>>
    /\ UNCHANGED <<session_date, lines, recipients, i, success_count, trace>>

\* get_session_info on its own: the answer to the first prompt is already
\* waiting on the console, later answers are typed
InitSessionInfo ==
    /\ pc = "date"
    /\ stdin \in {<<d>> : d \in AllDateInputs}
    /\ line = <<>>
    /\ diag = "none"
    /\ session_date = <<>>
    /\ session_num = <<>>
    /\ report_id = <<>>
    /\ lines = <<>>
    /\ recipients = <<>>
    /\ i = 0
    /\ success_count = 0
    /\ trace = <<>>

NextSessionInfo ==
    \/ PromptSessionDate(TypedDates)
    \/ PromptSessionNum(AllNumInputs)

SpecSessionInfo == InitSessionInfo /\ [][NextSessionInfo]_vars

----------------------------------------------------------------------------
(* get_booking_data and parse_booking_data *)

IsBlank(l) == Strip(l) = <<>>

\* Lines of a booking-system paste
PasteLineSet ==
    { <<>>,
      <<" ","a","n","n"," ","L","E","E">>,
      <<"A","@","x",".","c","o">> }

NonBlankCount(ls) == Cardinality({k \in 1..Len(ls) : ~IsBlank(ls[k])})

\* What the user may paste when the console has nothing waiting: a block of
\* lines that leaves at most MaxLines lines of content collected
PasteBlocks ==
    { b \in SeqsUpTo(PasteLineSet, MaxPaste) :
        b # <<>> /\ Len(lines) + NonBlankCount(b) <= MaxLines }

\* [line.strip() for line in raw_text.strip().split('\n') if line.strip()]
ParsedLines(raw_text) ==
    LET split == SplitNL(Strip(raw_text))
        kept == SelectSeq(split, LAMBDA l : Strip(l) # <<>>)
    IN [k \in 1..Len(kept) |-> Strip(kept[k])]

\* parse_booking_data without the parity check: an unpaired last line is
\* dropped
parse_booking_data_unchecked(raw_text) ==
    LET ls == ParsedLines(raw_text) IN
    [raised |-> FALSE,
     recipients |->
        [k \in 1..(Len(ls) \div 2) |->
            [name |-> Title(ls[2 * k - 1]), email |-> Lower(ls[2 * k])]]]

\* parse_booking_data: raised is TRUE when it raises ValueError
parse_booking_data(raw_text) ==
    LET ls == ParsedLines(raw_text) IN
    IF Len(ls) % 2 # 0
    THEN [raised |-> TRUE, recipients |-> <<>>]
    ELSE [raised |-> FALSE,
          recipients |->
            [k \in 1..(Len(ls) \div 2) |->
                [name |-> Title(ls[2 * k - 1]), email |-> Lower(ls[2 * k])]]]

\* The end of get_booking_data: join, parse, and the ValueError handler
BookingResult(ls) ==
    LET r == parse_booking_data(Join(ls)) IN
    IF r.raised
    THEN [diag |-> "parse_error", recipients |-> <<>>]
    ELSE [diag |-> "none", recipients |-> r.recipients]

\* The test that ends the collection loop
EndsCollection(l, ls) == IsBlank(l) /\ ls # <<>>

\* One pass of the paste-collection loop.  The pass that ends the loop also
\* parses the collected lines, returns to main(), which ends the run on an
\* empty list and prints the preview otherwise.
ReadPasteLine ==
    /\ pc = "paste"
    /\ \E b \in (IF stdin = <<>> THEN PasteBlocks ELSE {stdin}) :
        LET l == Head(b) IN
        /\ line' = l
        /\ stdin' = Tail(b)
        /\ IF EndsCollection(l, lines)
           THEN LET r == BookingResult(lines) IN
                /\ recipients' = r.recipients
                /\ diag' = r.diag
                /\ pc' = IF r.recipients = <<>> THEN "done" ELSE "confirm"
                /\ UNCHANGED lines
           ELSE /\ lines' = IF ~IsBlank(l) THEN Append(lines, l) ELSE lines
                /\ diag' = "none"
                /\ UNCHANGED <<recipients, pc>>
    /\ UNCHANGED <<session_date, session_num, report_id, i, success_count,
                   trace>>

----------------------------------------------------------------------------
(* send_email and main *)

Ev(e, n, t) == [ev |-> e, n |-> n, text |-> t]

\* response = input(...).strip().lower(); response != 'yes'
Confirmed(l) == Lower(Strip(l)) = yes

\* send_email ignoring its dry_run flag
send_email_always_real(k, dry_run, raises) ==
    IF raises
    THEN [ret |-> FALSE, exc |-> FALSE,
          evs |-> <<Ev("send_message", k, <<>>), Ev("failed", k, <<>>)>>]
    ELSE [ret |-> TRUE, exc |-> FALSE,
          evs |-> <<Ev("send_message", k, <<>>), Ev("sent", k, <<>>)>>]

\* send_email without its try/except: the exception of send_message leaves it
send_email_uncaught(k, dry_run, raises) ==
    IF dry_run
    THEN [ret |-> TRUE, exc |-> FALSE, evs |-> <<Ev("would_send", k, <<>>)>>]
    ELSE IF raises
    THEN [ret |-> FALSE, exc |-> TRUE, evs |-> <<Ev("send_message", k, <<>>)>>]
    ELSE [ret |-> TRUE, exc |-> FALSE,
          evs |-> <<Ev("send_message", k, <<>>), Ev("sent", k, <<>>)>>]

\* send_email for recipient k.  raises: server.send_message raises.
\* ret is the value returned, exc is TRUE when an exception leaves send_email.
send_email(k, dry_run, raises) ==
    IF dry_run
    THEN [ret |-> TRUE, exc |-> FALSE, evs |-> <<Ev("would_send", k, <<>>)>>]
    ELSE IF raises
    THEN [ret |-> FALSE, exc |-> FALSE,
          evs |-> <<Ev("send_message", k, <<>>), Ev("failed", k, <<>>)>>]
    ELSE [ret |-> TRUE, exc |-> FALSE,
          evs |-> <<Ev("send_message", k, <<>>), Ev("sent", k, <<>>)>>]

\* NeedsDelay with an off-by-one comparison: a delay after the last attempt too
NeedsDelayAfterLast(k, n) == k <= n

\* if i < len(recipients): time.sleep(DELAY_BETWEEN_EMAILS)
NeedsDelay(k, n) == k < n

\* NextRecipient staying on an entry whose send failed (a retry)
NextRecipientRetrying(k, ok) == IF ok THEN k + 1 ELSE k

\* for i, recipient in enumerate(recipients, 1): the entry after entry k
NextRecipient(k, ok) == k + 1

\* CheckTemplate without its return: the run goes on after the diagnostic
CheckTemplateNoReturn ==
    /\ pc = "start"
    /\ \E exists \in BOOLEAN :
        /\ pc' = "date"
        /\ diag' = IF exists THEN "none" ELSE "template_missing"
    /\ UNCHANGED <<stdin, line, session_date, session_num, report_id, lines,
                   recipients, i, success_count, trace>>

\* if not Path(TEMPLATE_FILE).exists(): return
CheckTemplate ==
    /\ pc = "start"
    /\ \E exists \in BOOLEAN :
        IF exists
        THEN pc' = "date" /\ diag' = "none"
        ELSE pc' = "done" /\ diag' = "template_missing"
    /\ UNCHANGED <<stdin, line, session_date, session_num, report_id, lines,
                   recipients, i, success_count, trace>>

\* Step 4: "Does this look correct?"
ConfirmCorrect(typed) ==
    /\ pc = "confirm"
    /\ \E l \in Offered(typed) :
        /\ line' = l
        /\ stdin' = Rest
        /\ trace' = Append(trace, Ev("answer_correct", 0, l))
        /\ IF Confirmed(l)
           THEN /\ pc' = IF SAVE_CSV THEN "save_csv" ELSE "load_template"
                /\ diag' = "none"
           ELSE /\ pc' = "done"
                /\ diag' = "cancelled"
    /\ UNCHANGED <<session_date, session_num, report_id, lines, recipients,
                   i, success_count>>

\* Step 5: save_to_csv
SaveCsv ==
    /\ pc = "save_csv"
    /\ trace' = Append(trace, Ev("csv", Len(recipients), <<>>))
    /\ pc' = "load_template"
    /\ diag' = "none"
    /\ UNCHANGED <<stdin, line, session_date, session_num, report_id, lines,
                   recipients, i, success_count>>

\* Step 6: load_template; its FileNotFoundError leaves main() and is
\* reported by the handler of the __main__ block
LoadTemplate ==
    /\ pc = "load_template"
    /\ \E exists \in BOOLEAN :
        IF exists
        THEN /\ pc' = IF recipients = <<>> THEN "confirm_send" ELSE "dry_run"
             /\ i' = 1
             /\ diag' = "none"
        ELSE /\ pc' = "done"
             /\ diag' = "unexpected"
             /\ UNCHANGED i
    /\ UNCHANGED <<stdin, line, session_date, session_num, report_id, lines,
                   recipients, success_count, trace>>

\* Step 7: one pass of the dry-run loop
DryRun ==
    /\ pc = "dry_run"
    /\ LET r == send_email(i, TRUE, FALSE) IN
        /\ trace' = trace \o r.evs
        /\ IF r.exc
           THEN pc' = "done" /\ diag' = "unexpected" /\ UNCHANGED i
           ELSE /\ diag' = "none"
                /\ IF i < Len(recipients)
                   THEN i' = i + 1 /\ UNCHANGED pc
                   ELSE pc' = "confirm_send" /\ UNCHANGED i
    /\ UNCHANGED <<stdin, line, session_date, session_num, report_id, lines,
                   recipients, success_count>>

\* Step 8: "Send for real?"
ConfirmSend(typed) ==
    /\ pc = "confirm_send"
    /\ \E l \in Offered(typed) :
        /\ line' = l
        /\ stdin' = Rest
        /\ trace' = Append(trace, Ev("answer_send", 0, l))
        /\ IF Confirmed(l)
           THEN /\ pc' = "connect"
                /\ success_count' = 0
                /\ diag' = "none"
           ELSE /\ pc' = "done"
                /\ diag' = "cancelled"
                /\ UNCHANGED success_count
    /\ UNCHANGED <<session_date, session_num, report_id, lines, recipients, i>>

\* Step 9, lines 331-336: open the connection, STARTTLS, log in.  Any of the
\* three may raise; the handlers after the with block report it and main()
\* returns.
Connect ==
    /\ pc = "connect"
    /\ \E outcome \in {"ok", "connect_failed", "starttls_failed",
                       "auth_failed", "login_failed"} :
        LET opened == <<Ev("connect", 0, <<>>)>>
            closed == <<Ev("quit", 0, <<>>)>>
        IN
        /\ trace' = trace \o
             (CASE outcome = "ok" ->
                     opened \o <<Ev("starttls", 0, <<>>), Ev("login", 0, <<>>)>>
                [] outcome = "connect_failed" -> <<>>
                [] outcome = "starttls_failed" -> opened \o closed
                [] OTHER ->
                     opened \o <<Ev("starttls", 0, <<>>)>> \o closed)
        /\ IF outcome = "ok"
           THEN /\ pc' = IF recipients = <<>> THEN "done" ELSE "send"
                /\ i' = 1
                /\ diag' = IF recipients = <<>> THEN "summary" ELSE "none"
           ELSE /\ pc' = "done"
                /\ diag' = IF outcome = "auth_failed" THEN "auth_failed"
                           ELSE "error"
                /\ UNCHANGED i
    /\ UNCHANGED <<stdin, line, session_date, session_num, report_id, lines,
                   recipients, success_count>>

\* Step 9, lines 339-351: one pass of the real-send loop; the pass for the
\* last entry also leaves the with block and prints the summary
SendNext ==
    /\ pc = "send"
    /\ \E raises \in BOOLEAN :
        LET r == send_email(i, FALSE, raises)
            n == Len(recipients)
            next == NextRecipient(i, r.ret)
        IN
        IF r.exc
        THEN /\ trace' = trace \o r.evs \o <<Ev("quit", 0, <<>>)>>
             /\ pc' = "done"
             /\ diag' = "error"
             /\ UNCHANGED <<i, success_count>>
        ELSE /\ success_count' = IF r.ret THEN success_count + 1
                                 ELSE success_count
             /\ IF next <= n
                THEN /\ trace' = trace \o r.evs \o
                          (IF NeedsDelay(i, n)
                           THEN <<Ev("sleep", DELAY_BETWEEN_EMAILS, <<>>)>>
                           ELSE <<>>)
                     /\ i' = next
                     /\ diag' = "none"
                     /\ UNCHANGED pc
                ELSE /\ trace' = trace \o r.evs \o
                          (IF NeedsDelay(i, n)
                           THEN <<Ev("sleep", DELAY_BETWEEN_EMAILS, <<>>)>>
                           ELSE <<>>) \o <<Ev("quit", 0, <<>>)>>
                     /\ pc' = "done"
                     /\ diag' = "summary"
                     /\ UNCHANGED i
    /\ UNCHANGED <<stdin, line, session_date, session_num, report_id, lines,
                   recipients>>

Init ==
    /\ pc = "start"
    /\ stdin = <<>>
    /\ line = <<>>
    /\ diag = "none"
    /\ session_date = <<>>
    /\ session_num = <<>>
    /\ report_id = <<>>
    /\ lines = <<>>
    /\ recipients = <<>>
    /\ i = 0
    /\ success_count = 0
    /\ trace = <<>>

Next ==
    \/ CheckTemplate
    \/ PromptSessionDate(TypedDates)
    \/ PromptSessionNum(TypedNums)
    \/ ReadPasteLine
    \/ ConfirmCorrect(TypedAnswers)
    \/ SaveCsv
    \/ LoadTemplate
    \/ DryRun
    \/ ConfirmSend(TypedAnswers)
    \/ Connect
    \/ SendNext

Spec == Init /\ [][Next]_vars

----------------------------------------------------------------------------
(* Properties *)

N == Len(recipients)
Pos(e) == {k \in 1..Len(trace) : trace[k].ev = e}
At(e, n) == {k \in 1..Len(trace) : trace[k].ev = e /\ trace[k].n = n}
SmtpEvents == {"connect", "starttls", "login", "send_message"}
Outcomes == {"sent", "failed"}

\* An answer that is 'yes' once trimmed and lower-cased
IsYesAnswer(t) == Lower(Strip(t)) = <<"y","e","s">>

\* C1: every SMTP action (connect, STARTTLS, login, send_message) comes after
\* a 'yes' to "Does this look correct?", then the dry-run line of every
\* recipient, then a 'yes' to "Send for real?"; no dry-run line comes after
\* an SMTP action; and an answer other than 'yes' is the last thing of a run
\* that has sent nothing.
C1_SendOnlyAfterDryRunAndTwoYes ==
    /\ \A k \in 1..Len(trace) :
        trace[k].ev \in SmtpEvents =>
            \E a \in Pos("answer_correct"), b \in Pos("answer_send") :
                /\ a < b /\ b < k
                /\ IsYesAnswer(trace[a].text)
                /\ IsYesAnswer(trace[b].text)
                /\ \A r \in 1..N : \E d \in At("would_send", r) : a < d /\ d < b
    /\ \A d \in Pos("would_send") :
        \A j \in 1..d : trace[j].ev \notin SmtpEvents
    /\ \A k \in Pos("answer_correct") \cup Pos("answer_send") :
        ~IsYesAnswer(trace[k].text) =>
            /\ pc = "done"
            /\ k = Len(trace)
            /\ Pos("send_message") = {}

\* C1 witness: a real send has happened
C1_Witness == Pos("send_message") # {} /\ pc = "done" /\ diag = "summary"

\* C2: every send_message is followed at once by its printed outcome; a
\* failed send is not counted as a success, and the loop goes on: while the
\* run is not over the loop is at a later entry, and when it is over every
\* later entry has been attempted after the failure.
C2_FailedSendDoesNotStopLoop ==
    /\ \A k \in Pos("send_message") :
        /\ k < Len(trace)
        /\ trace[k + 1].ev \in Outcomes
        /\ trace[k + 1].n = trace[k].n
    /\ success_count = Cardinality(Pos("sent"))
    /\ \A k \in Pos("failed") :
        /\ pc \in {"send", "done"}
        /\ pc = "send" => i > trace[k].n
        /\ pc = "done" =>
            \A r \in (trace[k].n + 1)..N :
                \E j \in At("send_message", r) : j > k

\* C2 witness: of three sends the second failed and the third was made all
\* the same
C2_Witness ==
    /\ pc = "done"
    /\ N = 3
    /\ \E k \in At("failed", 2) : \E j \in At("sent", 3) : j > k
    /\ success_count = 2

FailureDiags ==
    {"template_missing", "parse_error", "unexpected", "error", "auth_failed"}
Attempted(r) == At("send_message", r) # {}

\* C3 as stated: a run in which main() reported a failure (a missing
\* template, a malformed paste, a connection, STARTTLS or login failure, a
\* failed send) ends only when every recipient has been processed.
C3_NoFailureEndsRunEarly ==
    (pc = "done" /\ (diag \in FailureDiags \ {"unexpected"}
                        \/ Pos("failed") # {})) =>
        \A r \in 1..N : Attempted(r)

\* C3 as amended: a failed individual send is the only failure that does not
\* end the run (every recipient is still attempted and the summary printed);
\* a missing template, a malformed paste and a connection, STARTTLS or
\* login failure each end the run at once with no message sent, and before
\* a missing template or a malformed paste is reported no SMTP connection or
\* CSV file was made.
C3_OnlyFailedSendIsNotFatal ==
    /\ diag \in FailureDiags =>
        /\ pc = "done"
        /\ Pos("send_message") = {}
    /\ diag \in {"template_missing", "parse_error"} => trace = <<>>
    /\ diag = "unexpected" => Pos("connect") = {}
    /\ (pc = "done" /\ Pos("failed") # {}) =>
        /\ diag = "summary"
        /\ \A r \in 1..N : Attempted(r)

\* C3 witness: a login failure has ended a run that had recipients to send to
C3_Witness ==
    /\ pc = "done"
    /\ diag = "auth_failed"
    /\ N >= 2
    /\ Pos("starttls") # {}

\* C4: the outcome of every attempt but the last is followed at once by one
\* delay of DELAY_BETWEEN_EMAILS, whether the attempt succeeded or not; the
\* outcome of the last attempt is not; a delay only ever stands between the
\* outcome for entry r and the attempt for entry r+1; a fully processed list
\* of n entries has n-1 delays.
C4_DelayBetweenConsecutiveSends ==
    /\ \A k \in 1..Len(trace) :
        trace[k].ev \in Outcomes =>
            IF trace[k].n < N
            THEN /\ k < Len(trace)
                 /\ trace[k + 1] = Ev("sleep", DELAY_BETWEEN_EMAILS, <<>>)
            ELSE k < Len(trace) => trace[k + 1].ev # "sleep"
    /\ \A k \in Pos("sleep") :
        /\ k > 1
        /\ trace[k - 1].ev \in Outcomes
        /\ k < Len(trace) =>
            trace[k + 1] = Ev("send_message", trace[k - 1].n + 1, <<>>)
        /\ (k = Len(trace)) => (pc = "send" /\ i = trace[k - 1].n + 1)
    /\ (pc = "done" /\ diag = "summary") =>
        Cardinality(Pos("sleep")) = N - 1

\* C4 witness: a full run over three recipients whose first send failed
C4_Witness ==
    /\ pc = "done"
    /\ diag = "summary"
    /\ N = 3
    /\ At("failed", 1) # {}
    /\ Cardinality(Pos("sleep")) = 2

\* C5: once collection has ended with an odd number of non-empty lines, the
\* run is over with the parse diagnostic printed, no recipient, no CSV file,
\* no SMTP connection and no message.
C5_OddPasteEndsRun ==
    (pc # "paste" /\ NonBlankCount(lines) % 2 = 1) =>
        /\ pc = "done"
        /\ diag = "parse_error"
        /\ recipients = <<>>
        /\ trace = <<>>

\* C5 witness: a paste of three lines of content was refused
C5_Witness ==
    /\ pc = "done"
    /\ Len(lines) = 3
    /\ diag = "parse_error"

\* C8 as stated: when collection ends, no line of content of the paste is
\* left uncollected (what is left of the paste on the console is blank).
C8_MiddleBlankLinesIgnored ==
    (pc = "confirm" \/ (pc = "done" /\ diag = "parse_error")) =>
        \A k \in 1..Len(stdin) : IsBlank(stdin[k])

\* C9: the real attempts are for entries 1, 2, 3, ... in that order, each
\* entry at most once; the attempt for an entry starts only after the outcome
\* of the one before it; and a run that logged in ends only after every entry
\* has been attempted.
C9_EachEntryAttemptedOnceInOrder ==
    /\ \A k \in Pos("send_message") :
        /\ trace[k].n = Cardinality({j \in Pos("send_message") : j < k}) + 1
        /\ trace[k].n <= N
        /\ trace[k].n > 1 =>
            \E o \in 1..(k - 1) :
                trace[o].ev \in Outcomes /\ trace[o].n = trace[k].n - 1
    /\ \A r \in 1..N : Cardinality(At("send_message", r)) <= 1
    /\ (pc = "done" /\ Pos("login") # {}) =>
        \A r \in 1..N : Cardinality(At("send_message", r)) = 1

\* C9 witness: a run over three recipients ended, the first two sends failed
C9_Witness ==
    /\ pc = "done"
    /\ N = 3
    /\ At("failed", 1) # {}
    /\ At("failed", 2) # {}
    /\ At("sent", 3) # {}

\* A string get_session_info may return as the date: four decimal digits,
\* month 01..12, day 01..31
WellFormedDate(d) ==
    /\ Len(d) = 4
    /\ \A k \in 1..4 : IsDigit(d[k])
    /\ 10 * DigitVal(d[1]) + DigitVal(d[2]) \in 1..12
    /\ 10 * DigitVal(d[3]) + DigitVal(d[4]) \in 1..31

\* C6: past the date prompt session_date is always a well-formed date; each
\* answer to the date prompt is accepted (and kept, trimmed) exactly when it
\* is a well-formed date once trimmed, and otherwise it is rejected with a
\* message and the date is prompted again.
C6_OnlyWellFormedDateAccepted ==
    /\ [](pc # "date" => WellFormedDate(session_date))
    /\ [][pc = "date" =>
            IF WellFormedDate(Strip(line'))
            THEN pc' = "num" /\ session_date' = Strip(line')
            ELSE /\ pc' = "date"
                 /\ diag' \in {"bad_format", "bad_month", "bad_day"}
                 /\ session_date' = session_date]_vars

\* C6 witness: an answer with surrounding blanks was accepted as the last
\* day of a month
C6_Witness ==
    /\ pc = "num"
    /\ Len(line) = 5
    /\ SubSeq(session_date, 3, 4) = <<"3","1">>

\* C7: each answer to the session-number prompt is accepted exactly when,
\* trimmed, it is empty, 1, 2 or 3 (empty counting as 1), and is otherwise
\* prompted again; on acceptance the report ID is the date for session 1 and
\* the date followed by the digit 2 or 3 otherwise; the date is not changed.
C7_SessionNumberAndReportId ==
    [][pc = "num" =>
        LET a == Strip(line') IN
        IF a \in {<<>>, <<"1">>, <<"2">>, <<"3">>}
        THEN /\ pc' = "paste"
             /\ session_num' = (IF a = <<>> THEN <<"1">> ELSE a)
             /\ report_id' = (IF session_num' = <<"1">> THEN session_date
                              ELSE Append(session_date, session_num'[1]))
             /\ session_date' = session_date
        ELSE /\ pc' = "num"
             /\ diag' = "bad_num"
             /\ session_date' = session_date
             /\ report_id' = report_id]_vars

\* C7 witness: get_session_info returned for a second session of the day
C7_Witness ==
    /\ pc = "paste"
    /\ session_num = <<"2">>
    /\ Len(report_id) = 5
    /\ SubSeq(report_id, 1, 4) = session_date

====
